---- MODULE Spec2Model ----
(***************************************************************************)
(* Model of the runtime helpers of the expression VM (src/vm/runtime.go):  *)
(* fetch, normalize, slice, in, negate, makeRange and toInt, plus the      *)
(* opcode-naming contract exercised by src/vm/program_test.go.             *)
(*                                                                         *)
(* A dynamic value (Go interface{}) is a record whose field "kind" is the  *)
(* reflect.Kind of its dynamic type; the untyped nil interface has kind    *)
(* "invalid", as reflect.ValueOf(nil).Kind() reports.  A slot of interface *)
(* type is represented by the dynamic value it holds.  Every helper        *)
(* returns either Ret(v) or Panic(msg).                                    *)
(***************************************************************************)
EXTENDS Integers, Sequences, FiniteSets, TLC

VARIABLES call, result

vars == <<call, result>>

(***************************************************************************)
(* Bounds of the model.  The 16-, 32- and 64-bit kinds are modelled with   *)
(* narrower words that keep the order 8 < 16 < 32 < 64 = machine width.    *)
(***************************************************************************)
W16 == 9
W32 == 10
W64 == 11
MaxLen == 3
MaxAlloc == 8
RangeSpan == 2
NumOpcodes == 6

\* Width of int8 and uint8, kept exact.
W8 == 8

------------------------------------------------------------------------------
(* Outcomes *)

Ret(v) == [st |-> "ret", val |-> v]

Panic(m) == [st |-> "panic", msg |-> m]

Pending == [st |-> "pending"]

------------------------------------------------------------------------------
(* Dynamic values *)

Nil == [kind |-> "invalid"]

Num(k, n) == [kind |-> k, n |-> n]

\* A float whose value is halves / 2.
Flt(k, h) == [kind |-> k, halves |-> h]

Str(cs) == [kind |-> "string", elems |-> cs]

Bool(b) == [kind |-> "bool", b |-> b]

SliceOf(es) == [kind |-> "slice", elems |-> es]

ArrayOf(es) == [kind |-> "array", elems |-> es]

\* entries is a sequence of <<key, value>> pairs with distinct keys.
MapOf(kt, et, es, isnil) == [kind |-> "map", kt |-> kt, et |-> et, entries |-> es, isnil |-> isnil]

\* fields is the sequence of <<name, value>> pairs in declaration order.
StructOf(fs) == [kind |-> "struct", fields |-> fs]

PtrTo(v) == [kind |-> "ptr", isnil |-> FALSE, elem |-> v]

NilPtr == [kind |-> "ptr", isnil |-> TRUE]

\* A value whose type also has the method Fetch; table is what Fetch answers.
WithFetch(v, table) == [x \in DOMAIN v \cup {"fetch"} |-> IF x = "fetch" THEN table ELSE v[x]]

SignedKinds == {"int", "int8", "int16", "int32", "int64"}

UnsignedKinds == {"uint", "uint8", "uint16", "uint32", "uint64"}

FloatKinds == {"float32", "float64"}

IntKinds == SignedKinds \cup UnsignedKinds

Bits(k) ==
  CASE k \in {"int8", "uint8"} -> W8
    [] k \in {"int16", "uint16"} -> W16
    [] k \in {"int32", "uint32"} -> W32
    [] OTHER -> W64

WrapU(x, w) == x % (2 ^ w)

WrapS(x, w) == LET m == x % (2 ^ w) IN IF m >= 2 ^ (w - 1) THEN m - 2 ^ w ELSE m

Wrap(k, x) == IF k \in SignedKinds THEN WrapS(x, Bits(k)) ELSE WrapU(x, Bits(k))

MinOf(k) == IF k \in SignedKinds THEN -(2 ^ (Bits(k) - 1)) ELSE 0

MaxOf(k) == IF k \in SignedKinds THEN 2 ^ (Bits(k) - 1) - 1 ELSE 2 ^ Bits(k) - 1

MinInt == MinOf("int")

MaxInt == MaxOf("int")

\* Float to integer conversion truncates toward zero.
Trunc(h) == IF h >= 0 THEN h \div 2 ELSE -((-h) \div 2)

------------------------------------------------------------------------------
(* toInt *)

toInt(a) ==
  IF a.kind \in FloatKinds THEN Ret(WrapS(Trunc(a.halves), Bits("int")))
  ELSE IF a.kind \in IntKinds THEN Ret(WrapS(a.n, Bits("int")))
  ELSE Panic("invalid operation: int")

------------------------------------------------------------------------------
(* negate *)

negate_keepsMin(i) ==
  IF i.kind \in FloatKinds THEN Ret(Flt(i.kind, -i.halves))
  ELSE IF i.kind \in SignedKinds
    THEN IF i.n = MinOf(i.kind) THEN Ret(Num(i.kind, MaxOf(i.kind))) ELSE Ret(Num(i.kind, -i.n))
  ELSE IF i.kind \in UnsignedKinds THEN Ret(Num(i.kind, Wrap(i.kind, -i.n)))
  ELSE Panic("invalid operation: -")

negate_signedResult(i) ==
  IF i.kind \in FloatKinds THEN Ret(Flt(i.kind, -i.halves))
  ELSE IF i.kind \in SignedKinds THEN Ret(Num(i.kind, Wrap(i.kind, -i.n)))
  ELSE IF i.kind \in UnsignedKinds THEN Ret(Num(i.kind, WrapS(-i.n, Bits(i.kind))))
  ELSE Panic("invalid operation: -")

negate(i) ==
  IF i.kind \in FloatKinds THEN Ret(Flt(i.kind, -i.halves))
  ELSE IF i.kind \in IntKinds THEN Ret(Num(i.kind, Wrap(i.kind, -i.n)))
  ELSE Panic("invalid operation: -")

------------------------------------------------------------------------------
(* makeRange *)

\* make([]int, size): the runtime refuses a length it cannot allocate.
makeslice(size) == IF size > MaxAlloc THEN Panic("makeslice: len out of range") ELSE Ret(size)

makeRange(min, max) ==
  LET size == WrapS(max - min + 1, Bits("int")) IN
  IF size <= 0 THEN Ret(SliceOf(<<>>))
  ELSE IF makeslice(size).st = "panic" THEN makeslice(size)
  ELSE Ret(SliceOf([i \in 1..size |-> Num("int", WrapS(min + (i - 1), Bits("int")))]))

------------------------------------------------------------------------------
(* slice *)

\* reflect.Value.Slice(a, b) on a value obtained from reflect.ValueOf.
reflect_Slice(v, a, b) ==
  IF v.kind = "array" THEN Panic("reflect.Value.Slice: slice of unaddressable array")
  ELSE IF a < 0 \/ b < a \/ b > Len(v.elems) THEN Panic("reflect.Value.Slice: slice index out of bounds")
  ELSE Ret([kind |-> v.kind, elems |-> SubSeq(v.elems, a + 1, b)])

RECURSIVE slice(_, _, _)
slice(array, from, to) ==
  IF array.kind \in {"array", "slice", "string"} THEN
    LET length == Len(array.elems)
        ra == toInt(from)
        rb == toInt(to)
    IN IF ra.st = "panic" THEN ra
       ELSE IF rb.st = "panic" THEN rb
       ELSE LET b == IF rb.val > length THEN length ELSE rb.val
                a == IF ra.val > b THEN b ELSE ra.val
            IN reflect_Slice(array, a, b)
  ELSE IF array.kind = "ptr" /\ ~array.isnil THEN slice(array.elem, from, to)
  ELSE Panic("cannot slice")

------------------------------------------------------------------------------
(* reflect.Value: the zero Value is invalid; ro marks a value reached through *)
(* an unexported field, which Interface() refuses to return.                  *)

RV(v) == [valid |-> TRUE, v |-> v, ro |-> FALSE]

ROValue(v) == [valid |-> TRUE, v |-> v, ro |-> TRUE]

ZeroRV == [valid |-> FALSE]

HasFetch(v) == "fetch" \in DOMAIN v

\* The byte a string holds at a position.
ByteOf(c) == CASE c = "a" -> Num("uint8", 97) [] c = "b" -> Num("uint8", 98) [] OTHER -> Num("uint8", 63)

reflect_Index(v, n) ==
  IF n < 0 \/ n >= Len(v.elems) THEN Panic("reflect: index out of range")
  ELSE Ret(RV(IF v.kind = "string" THEN ByteOf(v.elems[n + 1]) ELSE v.elems[n + 1]))

Assignable(v, t) == v.kind # "invalid" /\ (t = "interface" \/ v.kind = t)

Hashable(v) == v.kind \notin {"slice", "map"}

HasKey(m, k) == \E idx \in DOMAIN m.entries : m.entries[idx][1] = k

ValueAt(m, k) == m.entries[CHOOSE idx \in DOMAIN m.entries : m.entries[idx][1] = k][2]

reflect_MapIndex(m, k) ==
  IF ~Assignable(k, m.kt) THEN Panic("reflect.Value.MapIndex: value is not assignable to the key type")
  ELSE IF ~Hashable(k) THEN Panic("runtime error: hash of unhashable type")
  ELSE IF HasKey(m, k) THEN Ret(RV(ValueAt(m, k)))
  ELSE Ret(ZeroRV)

Exported(name) == Len(name) > 0 /\ name[1] \in {"F", "N", "P", "S"}

HasField(r, name) == \E idx \in DOMAIN r.fields : r.fields[idx][1] = name

FieldAt(r, name) == r.fields[CHOOSE idx \in DOMAIN r.fields : r.fields[idx][1] = name][2]

reflect_FieldByName(r, name) ==
  IF HasField(r, name)
    THEN IF Exported(name) THEN RV(FieldAt(r, name)) ELSE ROValue(FieldAt(r, name))
    ELSE ZeroRV

\* reflect.Value.String(): the string itself, or "<T Value>" for any other kind.
reflect_String(i) == IF i.kind = "string" THEN i.elems ELSE <<"<", i.kind, " Value>">>

reflect_Zero(t) ==
  CASE t = "int" -> Num("int", 0)
    [] t = "string" -> Str(<<>>)
    [] t = "bool" -> Bool(FALSE)
    [] t = "ptr" -> NilPtr
    [] OTHER -> Nil

\* reflect.Indirect(v).Kind()
IndirectKind(v) == IF v.kind # "ptr" THEN v.kind ELSE IF v.isnil THEN "invalid" ELSE v.elem.kind

------------------------------------------------------------------------------
(* normalize *)

DerefKinds == {"bool", "complex64", "complex128", "map", "slice", "string"} \cup FloatKinds \cup IntKinds

normalize(rv) ==
  IF ~rv.valid THEN Panic("reflect: call of reflect.Value.Interface on zero Value")
  ELSE LET v == IF rv.v.kind = "ptr" /\ IndirectKind(rv.v) \in DerefKinds THEN rv.v.elem ELSE rv.v
       IN IF rv.ro THEN Panic("reflect.Value.Interface: cannot return value obtained from unexported field or method")
          ELSE Ret(v)

------------------------------------------------------------------------------
(* fetch *)

\* The host's Fetch method: the value it has for the key, or nil.
Fetcher_Fetch(from, i) ==
  IF \E idx \in DOMAIN from.fetch : from.fetch[idx][1] = i
    THEN from.fetch[CHOOSE idx \in DOMAIN from.fetch : from.fetch[idx][1] = i][2]
    ELSE Nil

\* reflect.Zero(reflect.TypeOf(from).Elem()).Interface() in the map case.
ZeroOfTypeElem(from) ==
  IF from.kind = "ptr" THEN MapOf(from.elem.kt, from.elem.et, <<>>, TRUE)
  ELSE reflect_Zero(from.et)

fetchStructural(from, i, nilsafe) ==
  LET v == IF from.kind = "ptr" /\ IndirectKind(from) \in {"map", "slice", "struct"} THEN from.elem ELSE from
  IN CASE v.kind \in {"array", "slice", "string"} ->
            LET n == toInt(i) IN
            IF n.st = "panic" THEN n
            ELSE LET e == reflect_Index(v, n.val) IN IF e.st = "panic" THEN e ELSE normalize(e.val)
       [] v.kind = "map" ->
            LET value == reflect_MapIndex(v, i) IN
            IF value.st = "panic" THEN value
            ELSE IF value.val.valid THEN normalize(value.val)
            ELSE Ret(ZeroOfTypeElem(from))
       [] v.kind = "struct" -> normalize(reflect_FieldByName(v, reflect_String(i)))
       [] OTHER -> IF ~nilsafe THEN Panic("cannot fetch") ELSE Ret(Nil)

fetch_ignoresFetcher(from, i, nilsafe) == fetchStructural(from, i, nilsafe)

fetch(from, i, nilsafe) ==
  IF HasFetch(from) THEN
    LET value == Fetcher_Fetch(from, i) IN
    IF value # Nil THEN Ret(value)
    ELSE IF ~nilsafe THEN Panic("cannot fetch")
    ELSE Ret(Nil)
  ELSE fetchStructural(from, i, nilsafe)

------------------------------------------------------------------------------
(* in *)

IsNumeric(v) == v.kind \in IntKinds \cup FloatKinds

\* Twice the numeric value, so that integers and floats compare by value.
Halves(v) == IF v.kind \in FloatKinds THEN v.halves ELSE 2 * v.n

equal(a, b) ==
  IF IsNumeric(a) /\ IsNumeric(b) THEN Halves(a) = Halves(b)
  ELSE IF a.kind = b.kind THEN a = b
  ELSE FALSE

RECURSIVE in_skipsLast(_, _)
in_skipsLast(needle, array) ==
  IF array = Nil THEN Ret(FALSE)
  ELSE CASE array.kind \in {"array", "slice"} ->
              Ret(\E idx \in 1..(Len(array.elems) - 1) : equal(array.elems[idx], needle))
         [] array.kind = "map" ->
              IF needle.kind = "invalid" THEN Panic("cannot use as index")
              ELSE LET value == reflect_MapIndex(array, needle) IN
                   IF value.st = "panic" THEN value ELSE Ret(value.val.valid)
         [] array.kind = "struct" ->
              IF needle.kind # "string" THEN Panic("cannot use as field name")
              ELSE Ret(reflect_FieldByName(array, needle.elems).valid)
         [] array.kind = "ptr" ->
              IF ~array.isnil THEN in_skipsLast(needle, array.elem) ELSE Ret(FALSE)
         [] OTHER -> Panic("operator in not defined")

RECURSIVE in(_, _)
in(needle, array) ==
  IF array = Nil THEN Ret(FALSE)
  ELSE CASE array.kind \in {"array", "slice"} ->
              Ret(\E idx \in 1..Len(array.elems) : equal(array.elems[idx], needle))
         [] array.kind = "map" ->
              IF needle.kind = "invalid" THEN Panic("cannot use as index")
              ELSE LET value == reflect_MapIndex(array, needle) IN
                   IF value.st = "panic" THEN value ELSE Ret(value.val.valid)
         [] array.kind = "struct" ->
              IF needle.kind # "string" THEN Panic("cannot use as field name")
              ELSE Ret(reflect_FieldByName(array, needle.elems).valid)
         [] array.kind = "ptr" ->
              IF ~array.isnil THEN in(needle, array.elem) ELSE Ret(FALSE)
         [] OTHER -> Panic("operator in not defined")

------------------------------------------------------------------------------
(* Opcode naming and disassembly *)

OpPush == 0

OpEnd == OpPush + NumOpcodes

\* The line text of an opcode: its mnemonic, or the raw-hex fallback "\t0x..".
Mnemonic_lastUnnamed(op) ==
  IF op >= OpPush /\ op < OpEnd - 1 THEN [hex |-> FALSE, name |-> op] ELSE [hex |-> TRUE, name |-> op]

Mnemonic(op) ==
  IF op >= OpPush /\ op < OpEnd THEN [hex |-> FALSE, name |-> op] ELSE [hex |-> TRUE, name |-> op]

Disassemble(program) ==
  Ret([ip \in 1..Len(program.Bytecode) |-> [offset |-> ip - 1, text |-> Mnemonic(program.Bytecode[ip])]])

------------------------------------------------------------------------------
(* Inputs *)

IntsOf(k) == {Num(k, n) : n \in MinOf(k)..MaxOf(k)}

NegateArgs ==
  UNION {IntsOf(k) : k \in IntKinds}
    \cup {Flt(k, h) : k \in FloatKinds, h \in -3..3}
    \cup {Str(<<"a">>), Nil, Bool(TRUE)}

RangeEnds == (MinInt..(MinInt + 1)) \cup ((-RangeSpan)..RangeSpan) \cup ((MaxInt - 1)..MaxInt)

SeqsUpTo(S, n) == UNION {[1..m -> S] : m \in 0..n}

Slices == {SliceOf(es) : es \in SeqsUpTo({Num("int", 1), Num("int", 2)}, MaxLen)}

Strings == {Str(cs) : cs \in SeqsUpTo({"a", "b"}, MaxLen)}

Arrays == {ArrayOf(es) : es \in SeqsUpTo({Num("int", 1), Num("int", 2)}, 2)}

SliceContainers ==
  Slices \cup Strings \cup Arrays
    \cup {PtrTo(SliceOf(<<Num("int", 1), Num("int", 2)>>)), PtrTo(ArrayOf(<<Num("int", 1)>>)),
          PtrTo(PtrTo(Str(<<"a", "b">>))), NilPtr, Nil, Num("int", 7),
          MapOf("string", "int", <<>>, FALSE), StructOf(<<>>)}

SliceBounds ==
  {Num("int", n) : n \in (-2)..(MaxLen + 2)}
    \cup {Num("int", MinInt), Num("int", MaxInt), Num("uint8", 2), Num("uint64", MaxOf("uint64")),
          Flt("float64", 3), Flt("float64", -1), Str(<<"a">>), Nil}

------------------------------------------------------------------------------
(* Inputs of fetch and in *)

I(n) == Num("int", n)

S(c) == Str(<<c>>)

M1 == MapOf("string", "int", << <<S("a"), I(1)>> >>, FALSE)

M2 == MapOf("string", "interface", << <<S("a"), PtrTo(I(5))>>, <<S("b"), Nil>> >>, FALSE)

M3 == MapOf("int", "string", << <<I(1), S("x")>> >>, FALSE)

M4 == MapOf("interface", "bool", << <<S("a"), Bool(TRUE)>>, <<I(1), Bool(TRUE)>> >>, FALSE)

M5 == MapOf("string", "ptr", << <<S("a"), PtrTo(StructOf(<<>>))>> >>, FALSE)

NilMap == MapOf("string", "int", <<>>, TRUE)

R1 ==
  StructOf(<< <<<<"F">>, I(1)>>, <<<<"g">>, I(2)>>, <<<<"P">>, PtrTo(I(3))>>,
              <<<<"N">>, NilPtr>>, <<<<"S">>, PtrTo(StructOf(<<>>))>> >>)

R2 == StructOf(<< <<<<"F">>, S("x")>> >>)

Maps == {M1, M2, M3, M4, M5, NilMap}

Records == {R1, R2, StructOf(<<>>)}

Sequences ==
  {SliceOf(<<I(1), I(2)>>), SliceOf(<<>>), SliceOf(<<PtrTo(I(4)), S("a"), Nil>>),
   SliceOf(<<Flt("float64", 2), Num("uint8", 3)>>), ArrayOf(<<I(1), I(3)>>), Str(<<"a", "b">>)}

Scalars == {Nil, I(7), NilPtr, PtrTo(I(1)), Bool(TRUE)}

FetchTables == {<<>>, << <<S("a"), I(9)>>, <<S("F"), NilPtr>>, <<I(1), S("y")>> >>}

Fetchers == {WithFetch(v, t) : v \in {M1, R1, I(7), SliceOf(<<I(1), I(2)>>), PtrTo(M1)}, t \in FetchTables}

Containers ==
  Maps \cup Records \cup Sequences \cup Scalars
    \cup {PtrTo(c) : c \in Maps \cup Records \cup Sequences}
    \cup {PtrTo(PtrTo(M1)), PtrTo(PtrTo(SliceOf(<<I(1), I(2)>>)))}

Keys ==
  {S("a"), S("b"), S("c"), S("F"), S("g"), S("P"), S("N"), S("S"), S("Z"), S("x"),
   I(0), I(1), I(2), I(3), I(-1), Num("uint8", 1), Flt("float64", 2), Bool(TRUE), Nil, SliceOf(<<>>)}

Opcodes == OpPush..(OpEnd + 1)

------------------------------------------------------------------------------
(* Specification: a call is drawn, then the helper it names runs.  *)

Init ==
  /\ result = Pending
  /\ \/ \E i \in NegateArgs : call = [op |-> "negate", i |-> i]
     \/ \E min \in RangeEnds, max \in RangeEnds : call = [op |-> "makeRange", min |-> min, max |-> max]
     \/ \E s \in SliceContainers, from \in SliceBounds, to \in SliceBounds :
          call = [op |-> "slice", array |-> s, from |-> from, to |-> to]
     \/ \E c \in Containers \cup Fetchers, k \in Keys, ns \in BOOLEAN :
          call = [op |-> "fetch", from |-> c, i |-> k, nilsafe |-> ns]
     \/ \E c \in Containers, k \in Keys : call = [op |-> "in", needle |-> k, array |-> c]
     \/ \E o \in Opcodes : call = [op |-> "disassemble", program |-> [Constants |-> <<Bool(TRUE)>>, Bytecode |-> <<o>>]]

DoNegate ==
  /\ call.op = "negate" /\ result = Pending
  /\ result' = negate(call.i)
  /\ UNCHANGED call

DoMakeRange ==
  /\ call.op = "makeRange" /\ result = Pending
  /\ result' = makeRange(call.min, call.max)
  /\ UNCHANGED call

DoSlice ==
  /\ call.op = "slice" /\ result = Pending
  /\ result' = slice(call.array, call.from, call.to)
  /\ UNCHANGED call

DoFetch ==
  /\ call.op = "fetch" /\ result = Pending
  /\ result' = fetch(call.from, call.i, call.nilsafe)
  /\ UNCHANGED call

DoIn ==
  /\ call.op = "in" /\ result = Pending
  /\ result' = in(call.needle, call.array)
  /\ UNCHANGED call

DoDisassemble ==
  /\ call.op = "disassemble" /\ result = Pending
  /\ result' = Disassemble(call.program)
  /\ UNCHANGED call

Next == DoNegate \/ DoMakeRange \/ DoSlice \/ DoFetch \/ DoIn \/ DoDisassemble

Spec == Init /\ [][Next]_vars

Done(name) == call.op = name /\ result # Pending

------------------------------------------------------------------------------
(* Properties *)

\* The map a fetch call reads: the container itself or the map it points to.
MapOfCall == IF call.from.kind = "ptr" THEN call.from.elem ELSE call.from

IsMapCall ==
  /\ Done("fetch") /\ ~HasFetch(call.from)
  /\ \/ call.from.kind = "map"
     \/ call.from.kind = "ptr" /\ ~call.from.isnil /\ call.from.elem.kind = "map"

ValidKey(m, k) == Assignable(k, m.kt) /\ Hashable(k)

\* C1: for a map M, passed directly or through one reference, and a key of
\* M's key type that is not present in M, fetch returns the zero value of M's
\* value kind, whatever nilSafe is.
C1_MissingKeyGivesZero ==
  (IsMapCall /\ ValidKey(MapOfCall, call.i) /\ ~HasKey(MapOfCall, call.i))
    => result = Ret(reflect_Zero(MapOfCall.et))

\* The same statement for a map passed directly (it holds; the map reached
\* through a reference is what refutes C1).
MissingKeyGivesZeroDirect == (IsMapCall /\ call.from.kind = "map") => C1_MissingKeyGivesZero

RecordOfCall == IF call.from.kind = "ptr" THEN call.from.elem ELSE call.from

IsRecordCall ==
  /\ Done("fetch") /\ ~HasFetch(call.from)
  /\ \/ call.from.kind = "struct"
     \/ call.from.kind = "ptr" /\ ~call.from.isnil /\ call.from.elem.kind = "struct"
  /\ call.i.kind = "string"

\* The value a caller observes for a field: a reference to a scalar-like
\* value is followed, anything else is the field's value itself.
Observed(v) ==
  IF v.kind = "ptr" /\ ~v.isnil /\ v.elem.kind \in DerefKinds THEN v.elem ELSE v

\* C2: for a record R and a string key f: an existing (exported) field is
\* returned by fetch(R, f, false); for a name that is no field of R,
\* fetch(R, f, false) fails and fetch(R, f, true) returns the absent value.
C2_RecordFetch ==
  IsRecordCall =>
    IF HasField(RecordOfCall, call.i.elems)
      THEN Exported(call.i.elems) /\ ~call.nilsafe
             => result = Ret(Observed(FieldAt(RecordOfCall, call.i.elems)))
      ELSE IF call.nilsafe THEN result = Ret(Nil) ELSE result.st = "panic"

\* C3: when the container has the custom accessor, the accessor alone decides:
\* a found value is returned as it is, not-found is the absent value under
\* nilSafe and a lookup failure otherwise, whatever the container's shape.
C3_AccessorDecides ==
  (Done("fetch") /\ HasFetch(call.from)) =>
    LET a == Fetcher_Fetch(call.from, call.i) IN
    IF a # Nil THEN result = Ret(a)
    ELSE IF call.nilsafe THEN result = Ret(Nil)
    ELSE result = Panic("cannot fetch")

\* C3 witness: a map that holds the key structurally, whose accessor reports
\* not-found, fetched nil-safely: the result is the absent value.
C3_Witness ==
  /\ Done("fetch") /\ HasFetch(call.from) /\ call.from.kind = "map"
  /\ HasKey(call.from, call.i) /\ Fetcher_Fetch(call.from, call.i) = Nil
  /\ call.nilsafe /\ result = Ret(Nil)

IsSeqCall ==
  /\ Done("slice") /\ call.array.kind \in {"array", "slice", "string"}
  /\ call.from.kind = "int" /\ call.to.kind = "int"

LenOfCall == Len(call.array.elems)

MinOfTwo(x, y) == IF x < y THEN x ELSE y

\* C4: for a sequence or string S and 0 <= i <= j <= len(S), slice(S, i, j)
\* is a container of the same kind, of length j - i, whose k-th element is
\* S[i + k].
C4_SliceInBounds ==
  (IsSeqCall /\ 0 <= call.from.n /\ call.from.n <= call.to.n /\ call.to.n <= LenOfCall) =>
    /\ result.st = "ret"
    /\ result.val.kind = call.array.kind
    /\ Len(result.val.elems) = call.to.n - call.from.n
    /\ \A k \in 0..(call.to.n - call.from.n - 1) :
         result.val.elems[k + 1] = call.array.elems[call.from.n + k + 1]

\* The same statement for slices and strings only (it holds; arrays are what
\* refutes C4).
SliceInBoundsOfSlicesAndStrings == (IsSeqCall /\ call.array.kind # "array") => C4_SliceInBounds

\* C5: a bound overrun never fails: for a sequence or string S and bounds
\* (here non-negative) with to > len(S) or from > min(to, len(S)), slice
\* returns a value; slice(S, 0, j) = S for j > len(S), and slice(S, i, j) is
\* empty for i > min(j, len(S)).
C5_SliceOverrunClamped ==
  (/\ IsSeqCall /\ 0 <= call.from.n /\ 0 <= call.to.n
   /\ (call.to.n > LenOfCall \/ call.from.n > MinOfTwo(call.to.n, LenOfCall))) =>
    /\ result.st = "ret"
    /\ (call.from.n = 0 /\ call.to.n > LenOfCall) => result.val = call.array
    /\ call.from.n > MinOfTwo(call.to.n, LenOfCall) => result.val.elems = <<>>

\* The statement of C5 with no sign restriction and for slices and strings
\* only: negative bounds refute it as well.
SliceOverrunAnySign ==
  (/\ IsSeqCall /\ call.array.kind # "array"
   /\ (call.to.n > LenOfCall \/ call.from.n > MinOfTwo(call.to.n, LenOfCall))) =>
    result.st = "ret"

\* The statement of C5 for slices and strings and non-negative bounds (it holds).
SliceOverrunOfSlicesAndStrings == (IsSeqCall /\ call.array.kind # "array") => C5_SliceOverrunClamped

OpcodeOfCall == call.program.Bytecode[1]

\* C6: for every opcode o with OpPush <= o < OpEnd, disassembling the program
\* whose bytecode is the single instruction o gives text with a mnemonic for o
\* and no raw-hex fallback.
C6_MnemonicTotal ==
  (Done("disassemble") /\ OpcodeOfCall >= OpPush /\ OpcodeOfCall < OpEnd) =>
    /\ result.st = "ret"
    /\ \E ln \in DOMAIN result.val : result.val[ln].text = [hex |-> FALSE, name |-> OpcodeOfCall]
    /\ \A ln \in DOMAIN result.val : ~result.val[ln].text.hex

\* C6 witness: the last opcode before the end sentinel has been disassembled.
C6_Witness ==
  /\ Done("disassemble") /\ OpcodeOfCall = OpEnd - 1
  /\ result.st = "ret" /\ Len(result.val) = 1

\* What the claim C7 says in returns, written without in: "fail" or a boolean.
RECURSIVE Member(_, _, _)
Member(needle, c, strictKeys) ==
  IF c = Nil THEN Ret(FALSE)
  ELSE IF c.kind \in {"array", "slice"}
    THEN Ret(\E idx \in DOMAIN c.elems : equal(c.elems[idx], needle))
  ELSE IF c.kind = "map"
    THEN IF strictKeys /\ ~ValidKey(c, needle) THEN Panic("fail") ELSE Ret(HasKey(c, needle))
  ELSE IF c.kind = "struct"
    THEN IF needle.kind = "string" THEN Ret(HasField(c, needle.elems)) ELSE Panic("fail")
  ELSE IF c.kind = "ptr"
    THEN IF c.isnil THEN Ret(FALSE) ELSE Member(needle, c.elem, strictKeys)
  ELSE Panic("fail")

Agrees(r, expected) ==
  IF expected.st = "panic" THEN r.st = "panic" ELSE r = expected

\* C7 as stated: in returns false for a nil container; for a sequence, whether
\* some element equals the needle; for a map, whether the needle is a key; for
\* a record and a string needle, whether that field exists; for a reference,
\* what it returns for the referenced value; and it fails for a record with a
\* non-string needle and for every other kind.
C7_MembershipAsStated ==
  Done("in") => Agrees(result, Member(call.needle, call.array, FALSE))

\* C7 amended: as stated, except that for a map in fails when the needle is
\* nil or is not a value of the map's key type, and for a nil reference it
\* returns false.
C7_Membership ==
  Done("in") => Agrees(result, Member(call.needle, call.array, TRUE))

\* C7 witness: a nil needle looked up in a map: in has failed.
C7_Witness ==
  /\ Done("in") /\ call.array.kind = "map" /\ call.needle = Nil
  /\ result.st = "panic"

\* C8: makeRange(min, max) never fails; it is empty when max < min, and
\* otherwise (here: for a length the runtime can allocate) the ascending
\* sequence of max - min + 1 integers whose k-th element is min + k.
C8_RangeInclusive ==
  Done("makeRange") =>
    /\ call.max < call.min => result = Ret(SliceOf(<<>>))
    /\ (call.max >= call.min /\ call.max - call.min + 1 <= MaxAlloc) =>
         /\ result.st = "ret"
         /\ Len(result.val.elems) = call.max - call.min + 1
         /\ \A k \in 0..(call.max - call.min) : result.val.elems[k + 1] = Num("int", call.min + k)

\* C9: for an unsigned kind of width w and a value v, negate returns an
\* unsigned value r of the same kind with 0 <= r < 2^w and (v + r) mod 2^w = 0;
\* negate(uint8(1)) = uint8(255).
C9_UnsignedNegateWraps ==
  (Done("negate") /\ call.i.kind \in UnsignedKinds) =>
    /\ result.st = "ret"
    /\ result.val.kind = call.i.kind
    /\ result.val.n >= 0 /\ result.val.n < 2 ^ Bits(call.i.kind)
    /\ (call.i.n + result.val.n) % (2 ^ Bits(call.i.kind)) = 0
    /\ call.i = Num("uint8", 1) => result.val.n = 255

\* C9 witness: negate(uint8(1)) has returned uint8(255).
C9_Witness ==
  /\ Done("negate") /\ call.i = Num("uint8", 1)
  /\ result = Ret(Num("uint8", 255))

\* C10 as stated: for a signed kind and any value v of it, negate returns the
\* value -v of the same kind, so that v + negate(v) = 0 as integers.
C10_SignedNegateExact ==
  (Done("negate") /\ call.i.kind \in SignedKinds) =>
    /\ result.st = "ret"
    /\ result.val.kind = call.i.kind
    /\ call.i.n + result.val.n = 0

\* C10 amended: for a signed kind, negate returns -v of the same kind for
\* every v but the most negative value of the kind, and returns that value
\* unchanged (v + negate(v) = 0 only modulo 2^w there).
C10_SignedNegate ==
  (Done("negate") /\ call.i.kind \in SignedKinds) =>
    /\ result.st = "ret"
    /\ result.val.kind = call.i.kind
    /\ result.val.n >= MinOf(call.i.kind) /\ result.val.n <= MaxOf(call.i.kind)
    /\ IF call.i.n = MinOf(call.i.kind)
         THEN result.val.n = call.i.n
         ELSE call.i.n + result.val.n = 0

\* C10 witness: negate of the most negative int8 has returned it unchanged.
C10_Witness ==
  /\ Done("negate") /\ call.i = Num("int8", -(2 ^ (W8 - 1)))
  /\ result = Ret(call.i)

====
